---------------------------- MODULE Spec2Model ----------------------------
(***************************************************************************)
(* Model of main() in src/dragon/launcher/dragon_multi_fe.py: the launcher *)
(* front end's retry loop around a LauncherFrontEnd session.               *)
(*                                                                         *)
(* Program state: the locals of main() (execution_complete, net_conf,      *)
(* fe_server, avail_nodes), the policy record args_map, the position pc    *)
(* in main() and the value that leaves main() (result).                    *)
(* History state: which sessions are alive, how often each was released,   *)
(* the calls made on the current session, where the last exception was     *)
(* raised, the last configuration a phase returned, the argument of the    *)
(* run_startup call in progress, whether this iteration's try block has    *)
(* raised, whether the counts taken so far went strictly down.             *)
(*                                                                         *)
(* LauncherFrontEnd (frontend.py) and NodeDescriptor (node_desc.py) are    *)
(* collaborators: each phase either returns some configuration or raises.  *)
(***************************************************************************)
EXTENDS Integers, FiniteSets, Sequences, TLC

\* ---------------------------------------------------------------- bounds
MaxNodes == 2          \* worker entries of a network configuration
MaxNodeCount == 3      \* largest args_map['node_count']
MaxAttempts == 3       \* loop iterations explored

\* ------------------------------------------------------------- data model
FrontEndKey == 0       \* the key 'f' of net_conf (line 54)
WorkerKeys == 1..MaxNodes
Keys == {FrontEndKey} \cup WorkerKeys

\* NodeDescriptor.State: ACTIVE and IDLE are named by the code, DOWN stands
\* for every other state.
NodeStates == {"ACTIVE", "IDLE", "DOWN"}

\* A network configuration: node index -> state of its descriptor. Every
\* configuration a phase returns has the front-end entry and MaxNodes worker
\* entries; a node that is gone is an entry in state DOWN.
Configs == [Keys -> NodeStates]

\* Python's None, the initial value of net_conf: not a configuration, and
\* unlike the empty dict it has no items().
None == [k \in {-1} |-> "None"]

Unbound == 0           \* fe_server before the first successful `with ... as`
NoCount == -1          \* avail_nodes before its first assignment

LAUNCHER_SUCCESS_EXIT == "LAUNCHER_SUCCESS_EXIT"
LAUNCHER_FAIL_EXIT == "LAUNCHER_FAIL_EXIT"

PhaseNames == {"run_startup", "run_app", "run_msg_server"}

VARIABLES
    pc,                 \* position in main()
    args_map,           \* policy: resilient, exhaust_resources, node_count
    execution_complete, \* line 34
    net_conf,           \* line 35
    fe_server,          \* the name bound by `with ... as fe_server`
    avail_nodes,        \* line 53
    result,             \* what leaves main(): a status or an escaped error
    iter,               \* loop iterations started
    nsessions,          \* sessions acquired so far
    alive,              \* sessions acquired and not yet released
    released,           \* session -> number of teardowns
    calls,              \* phases invoked on the current session, in order
    failed_at,          \* where the latest exception was raised
    last_conf,          \* last configuration returned by any phase
    startup_arg,        \* argument of the run_startup call in progress
    shrinking,          \* every attempt failed with strictly fewer healthy nodes
    decreasing,         \* as shrinking, without the bound on the first count
    raised              \* a statement of this iteration's try block has raised

vars == <<pc, args_map, execution_complete, net_conf, fe_server, avail_nodes,
          result, iter, nsessions, alive, released, calls, failed_at,
          last_conf, startup_arg, shrinking, decreasing, raised>>

ctl == <<args_map, execution_complete, avail_nodes, result, shrinking, decreasing>>
sess == <<fe_server, nsessions, alive, released>>

\* ------------------------------------------------------------------ Init
Init ==
    /\ pc = "loop"
    /\ args_map \in [resilient : BOOLEAN, exhaust_resources : BOOLEAN,
                     node_count : 1..MaxNodeCount]
    /\ execution_complete = FALSE
    /\ net_conf = None
    /\ fe_server = Unbound
    /\ avail_nodes = NoCount
    /\ result = "none"
    /\ iter = 0
    /\ nsessions = 0
    /\ alive = {}
    /\ released = [s \in 1..MaxAttempts |-> 0]
    /\ calls = <<>>
    /\ failed_at = "none"
    /\ last_conf = None
    /\ startup_arg = None
    /\ shrinking = TRUE
    /\ decreasing = TRUE
    /\ raised = FALSE

\* ------------------------------------------------------------ classifier
AvailNodesCountsFrontEnd(conf) ==
    Cardinality({idx \in DOMAIN conf : conf[idx] \in {"ACTIVE", "IDLE"}})

\* avail_nodes = len([... if node.state in [ACTIVE, IDLE] and idx != 'f'])
AvailNodes(conf) ==
    Cardinality({idx \in DOMAIN conf :
                    conf[idx] \in {"ACTIVE", "IDLE"} /\ idx # FrontEndKey})

\* The `resilient` attribute of a session, set from the policy it was built with.
SessionResilient(s) == args_map.resilient

ClassifierAbortsOffByOne(avail) ==
    IF args_map.exhaust_resources
    THEN avail <= 1
    ELSE avail = args_map.node_count - 1

ClassifierAbortsBelow(avail) ==
    IF args_map.exhaust_resources
    THEN avail = 0
    ELSE avail <= args_map.node_count - 1

ClassifierAbortsNeverExhaust(avail) ==
    IF args_map.exhaust_resources
    THEN FALSE
    ELSE avail = args_map.node_count - 1

\* lines 58-64: TRUE when the handler returns LAUNCHER_FAIL_EXIT
ClassifierAborts(avail) ==
    IF args_map.exhaust_resources
    THEN avail = 0
    ELSE avail = args_map.node_count - 1

HandlerOutcomeAlwaysClassify ==
    IF fe_server = Unbound THEN "UnboundLocalError"
    ELSE IF net_conf = None THEN "AttributeError"
    ELSE IF ClassifierAborts(AvailNodes(net_conf)) THEN "fail"
    ELSE "retry"

HandlerOutcomeNeverRetries ==
    IF fe_server = Unbound THEN "UnboundLocalError"
    ELSE IF ~SessionResilient(fe_server) THEN "fail"
    ELSE IF net_conf = None THEN "AttributeError"
    ELSE "fail"

\* lines 47-64: what the except block does with the state it finds
HandlerOutcome ==
    IF fe_server = Unbound THEN "UnboundLocalError"
    ELSE IF ~SessionResilient(fe_server) THEN "fail"
    ELSE IF net_conf = None THEN "AttributeError"
    ELSE IF ClassifierAborts(AvailNodes(net_conf)) THEN "fail"
    ELSE "retry"

\* ---------------------------------------------------------------- actions
\* line 37, condition true: start another iteration
WhileEnter ==
    /\ pc = "loop"
    /\ ~execution_complete
    /\ iter < MaxAttempts
    /\ pc' = "with"
    /\ iter' = iter + 1
    /\ raised' = FALSE
    /\ UNCHANGED <<ctl, sess, net_conf, calls, failed_at, last_conf, startup_arg>>

\* line 37 condition false, lines 71-72
ReturnSuccess ==
    /\ pc = "loop"
    /\ execution_complete
    /\ pc' = "done"
    /\ result' = LAUNCHER_SUCCESS_EXIT
    /\ UNCHANGED <<args_map, execution_complete, avail_nodes, shrinking, sess,
                   net_conf, iter, calls, failed_at, last_conf, startup_arg,
                   decreasing, raised>>

\* line 41: LauncherFrontEnd(args_map=args_map).__enter__() returns
Acquire ==
    /\ pc = "with"
    /\ nsessions' = nsessions + 1
    /\ fe_server' = nsessions + 1
    /\ alive' = alive \cup {nsessions + 1}
    /\ calls' = <<>>
    /\ pc' = "call_startup"
    /\ UNCHANGED <<ctl, net_conf, iter, released, failed_at, last_conf, startup_arg,
                   raised>>

\* line 41: construction or __enter__ raises; fe_server is not rebound
AcquireFail ==
    /\ pc = "with"
    /\ failed_at' = "acquire"
    /\ raised' = TRUE
    /\ pc' = "except"
    /\ UNCHANGED <<ctl, sess, net_conf, iter, calls, last_conf, startup_arg>>

\* line 42: fe_server.run_startup(net_conf=net_conf) is entered
StartupCall ==
    /\ pc = "call_startup"
    /\ startup_arg' = net_conf
    /\ calls' = Append(calls, "run_startup")
    /\ pc' = "run_startup"
    /\ UNCHANGED <<ctl, sess, net_conf, iter, failed_at, last_conf, raised>>

StartupReturnSkipsApp ==
    /\ pc = "run_startup"
    /\ \E c \in Configs :
          /\ net_conf' = c
          /\ last_conf' = c
    /\ startup_arg' = None
    /\ pc' = "call_msg_server"
    /\ UNCHANGED <<ctl, sess, iter, calls, failed_at, raised>>

\* line 42: run_startup returns a configuration, assigned to net_conf
StartupReturn ==
    /\ pc = "run_startup"
    /\ \E c \in Configs :
          /\ net_conf' = c
          /\ last_conf' = c
    /\ startup_arg' = None
    /\ pc' = "call_app"
    /\ UNCHANGED <<ctl, sess, iter, calls, failed_at, raised>>

StartupRaiseSkipsExit ==
    /\ pc = "run_startup"
    /\ failed_at' = "run_startup"
    /\ raised' = TRUE
    /\ startup_arg' = None
    /\ pc' = "except"
    /\ UNCHANGED <<ctl, sess, net_conf, iter, calls, last_conf>>

StartupRaiseChangesConf ==
    /\ pc = "run_startup"
    /\ failed_at' = "run_startup"
    /\ raised' = TRUE
    /\ startup_arg' = None
    /\ \E c \in Configs : net_conf' = c
    /\ pc' = "with_exit"
    /\ UNCHANGED <<ctl, sess, iter, calls, last_conf>>

\* line 42: run_startup raises; net_conf keeps its value
StartupRaise ==
    /\ pc = "run_startup"
    /\ failed_at' = "run_startup"
    /\ raised' = TRUE
    /\ startup_arg' = None
    /\ pc' = "with_exit"
    /\ UNCHANGED <<ctl, sess, net_conf, iter, calls, last_conf>>

RunAppDropsResult ==
    /\ pc = "call_app"
    /\ calls' = Append(calls, "run_app")
    /\ \E c \in Configs :
          /\ net_conf' = net_conf
          /\ last_conf' = c
    /\ pc' = "call_msg_server"
    /\ UNCHANGED <<ctl, sess, iter, failed_at, startup_arg, raised>>

\* line 43: net_conf = fe_server.run_app()
RunApp ==
    /\ pc = "call_app"
    /\ calls' = Append(calls, "run_app")
    /\ \E c \in Configs :
          /\ net_conf' = c
          /\ last_conf' = c
    /\ pc' = "call_msg_server"
    /\ UNCHANGED <<ctl, sess, iter, failed_at, startup_arg, raised>>

RunAppRaiseSkipsExit ==
    /\ pc = "call_app"
    /\ calls' = Append(calls, "run_app")
    /\ failed_at' = "run_app"
    /\ raised' = TRUE
    /\ pc' = "except"
    /\ UNCHANGED <<ctl, sess, net_conf, iter, last_conf, startup_arg>>

RunAppRaiseContinues ==
    /\ pc = "call_app"
    /\ calls' = Append(calls, "run_app")
    /\ failed_at' = "run_app"
    /\ raised' = TRUE
    /\ pc' = "call_msg_server"
    /\ UNCHANGED <<ctl, sess, net_conf, iter, last_conf, startup_arg>>

\* line 43: run_app raises
RunAppRaise ==
    /\ pc = "call_app"
    /\ calls' = Append(calls, "run_app")
    /\ failed_at' = "run_app"
    /\ raised' = TRUE
    /\ pc' = "with_exit"
    /\ UNCHANGED <<ctl, sess, net_conf, iter, last_conf, startup_arg>>

\* line 44: net_conf = fe_server.run_msg_server(); the block ends normally
RunMsgServer ==
    /\ pc = "call_msg_server"
    /\ calls' = Append(calls, "run_msg_server")
    /\ \E c \in Configs :
          /\ net_conf' = c
          /\ last_conf' = c
    /\ failed_at' = "none"
    /\ pc' = "with_exit"
    /\ UNCHANGED <<ctl, sess, iter, startup_arg, raised>>

\* line 44: run_msg_server raises
RunMsgServerRaise ==
    /\ pc = "call_msg_server"
    /\ calls' = Append(calls, "run_msg_server")
    /\ failed_at' = "run_msg_server"
    /\ raised' = TRUE
    /\ pc' = "with_exit"
    /\ UNCHANGED <<ctl, sess, net_conf, iter, last_conf, startup_arg>>

WithExitOnlyOnSuccess ==
    /\ pc = "with_exit"
    /\ IF failed_at = "none"
       THEN /\ released' = [released EXCEPT ![fe_server] = @ + 1]
            /\ alive' = alive \ {fe_server}
       ELSE UNCHANGED <<released, alive>>
    /\ pc' = IF failed_at = "none" THEN "else" ELSE "except"
    /\ UNCHANGED <<ctl, fe_server, nsessions, net_conf, iter, calls, failed_at,
                   last_conf, startup_arg, raised>>

WithExitChecksHealth ==
    /\ pc = "with_exit"
    /\ released' = [released EXCEPT ![fe_server] = @ + 1]
    /\ alive' = alive \ {fe_server}
    /\ pc' = IF failed_at = "none" /\ AvailNodes(net_conf) > 0
             THEN "else" ELSE "except"
    /\ UNCHANGED <<ctl, fe_server, nsessions, net_conf, iter, calls, failed_at,
                   last_conf, startup_arg, raised>>

\* line 41: the with statement leaves its block and calls __exit__, on the
\* normal path and on the exceptional one; __exit__ neither raises nor
\* swallows the exception, which then propagates to the except clause.
WithExit ==
    /\ pc = "with_exit"
    /\ released' = [released EXCEPT ![fe_server] = @ + 1]
    /\ alive' = alive \ {fe_server}
    /\ pc' = IF failed_at = "none" THEN "else" ELSE "except"
    /\ UNCHANGED <<ctl, fe_server, nsessions, net_conf, iter, calls, failed_at,
                   last_conf, startup_arg, raised>>

ElseKeepsLooping ==
    /\ pc = "else"
    /\ execution_complete' = FALSE
    /\ shrinking' = FALSE
    /\ decreasing' = FALSE
    /\ pc' = "loop"
    /\ UNCHANGED <<args_map, avail_nodes, result, sess, net_conf, iter, calls,
                   failed_at, last_conf, startup_arg, raised>>

\* lines 68-69
Else ==
    /\ pc = "else"
    /\ execution_complete' = TRUE
    /\ shrinking' = FALSE
    /\ decreasing' = FALSE
    /\ pc' = "loop"
    /\ UNCHANGED <<args_map, avail_nodes, result, sess, net_conf, iter, calls,
                   failed_at, last_conf, startup_arg, raised>>

\* lines 47-64: the whole except block
Except ==
    /\ pc = "except"
    /\ LET outcome == HandlerOutcome
           counted == outcome \in {"fail", "retry"} /\ SessionResilient(fe_server)
           avail   == IF counted THEN AvailNodes(net_conf) ELSE avail_nodes
       IN /\ avail_nodes' = avail
          /\ shrinking' = IF counted
                          THEN /\ shrinking
                               /\ IF avail_nodes = NoCount
                                  THEN avail <= args_map.node_count
                                  ELSE avail < avail_nodes
                          ELSE shrinking
          /\ decreasing' = IF counted
                           THEN /\ decreasing
                                /\ avail_nodes # NoCount => avail < avail_nodes
                           ELSE decreasing
          /\ CASE outcome = "fail" ->
                    pc' = "done" /\ result' = LAUNCHER_FAIL_EXIT
               [] outcome = "retry" ->
                    pc' = "loop" /\ result' = result
               [] OTHER ->
                    pc' = "raised" /\ result' = outcome
    /\ UNCHANGED <<args_map, execution_complete, sess, net_conf, iter, calls,
                   failed_at, last_conf, startup_arg, raised>>

Next ==
    \/ WhileEnter
    \/ ReturnSuccess
    \/ Acquire
    \/ AcquireFail
    \/ StartupCall
    \/ StartupReturn
    \/ StartupRaise
    \/ RunApp
    \/ RunAppRaise
    \/ RunMsgServer
    \/ RunMsgServerRaise
    \/ WithExit
    \/ Else
    \/ Except

Spec == Init /\ [][Next]_vars

TypeOK ==
    /\ pc \in {"loop", "with", "call_startup", "run_startup", "call_app",
               "call_msg_server", "with_exit", "else", "except", "done", "raised"}
    /\ net_conf \in Configs \cup {None}
    /\ last_conf \in Configs \cup {None}
    /\ startup_arg \in Configs \cup {None}
    /\ fe_server \in 0..MaxAttempts
    /\ avail_nodes \in {NoCount} \cup 0..MaxNodes
    /\ result \in {"none", LAUNCHER_SUCCESS_EXIT, LAUNCHER_FAIL_EXIT,
                   "UnboundLocalError", "AttributeError"}
    /\ iter \in 0..MaxAttempts
    /\ nsessions \in 0..iter
    /\ alive \subseteq 1..nsessions
    /\ failed_at \in PhaseNames \cup {"none", "acquire"}
    /\ execution_complete \in BOOLEAN
    /\ shrinking \in BOOLEAN
    /\ decreasing \in BOOLEAN
    /\ raised \in BOOLEAN
    /\ calls \in Seq(PhaseNames) /\ Len(calls) <= 3


\* ----------------------------------------------------------------- claims
Stopped == pc \in {"done", "raised"}
Resilient == args_map.resilient
Exhaust == args_map.exhaust_resources
ReturnsFail == pc' = "done" /\ result' = LAUNCHER_FAIL_EXIT
Retries == pc' = "loop" /\ ~execution_complete' /\ result' = "none"

\* C1: every session main() acquired is torn down exactly once; a session is
\* alive exactly while it has no teardown yet, and none is alive once the
\* with block has been left, in particular when the run has ended.
C1_ReleasedExactlyOnce ==
    /\ \A s \in 1..nsessions : released[s] = IF s \in alive THEN 0 ELSE 1
    /\ \A s \in (1..MaxAttempts) \ (1..nsessions) : released[s] = 0
    /\ pc \in {"except", "else", "loop", "with", "done", "raised"} => alive = {}

\* A run that failed in a phase of a retry attempt and returned the failure
\* status, with both sessions torn down once.
C1_Witness ==
    /\ pc = "done" /\ result = LAUNCHER_FAIL_EXIT
    /\ nsessions = 2 /\ failed_at \in PhaseNames
    /\ released[1] = 1 /\ released[2] = 1 /\ alive = {}

\* C2: a run that stops does so by returning one of the two exit statuses;
\* no error escapes main().
C2_OnlyStatusLeaves ==
    Stopped => pc = "done" /\ result \in {LAUNCHER_SUCCESS_EXIT, LAUNCHER_FAIL_EXIT}

\* C3: a phase failure under the resilient policy with net_conf still None is
\* classified with a healthy count of 0: failure status when exhaust_resources,
\* otherwise failure status iff node_count - 1 = 0 and else a retry that
\* carries None.
C3_NullConfCountsZero ==
    [][(pc = "except" /\ failed_at \in PhaseNames /\ Resilient /\ net_conf = None)
        => IF Exhaust \/ args_map.node_count - 1 = 0
           THEN ReturnsFail
           ELSE Retries /\ net_conf' = None]_vars

\* C4: with resilient false a phase failure makes the handler return the
\* failure status, whatever the healthy count and exhaust_resources; no
\* session is acquired afterwards.
C4_NonResilientFails ==
    [][/\ (pc = "except" /\ failed_at \in PhaseNames /\ ~Resilient)
            => (ReturnsFail /\ nsessions' = nsessions)
       /\ pc = "done" => nsessions' = nsessions]_vars

\* A non-resilient run that returned the failure status after a phase failed
\* with all node_count workers healthy.
C4_Witness ==
    /\ pc = "done" /\ result = LAUNCHER_FAIL_EXIT /\ ~Resilient
    /\ failed_at \in PhaseNames /\ net_conf # None
    /\ AvailNodes(net_conf) = args_map.node_count

\* C5: resilient with exhaust_resources: after a failure the handler returns
\* the failure status iff the healthy count of net_conf is 0, and for every
\* count >= 1 the loop goes on to another attempt.
C5_ExhaustAbortIffZero ==
    [][(pc = "except" /\ fe_server # Unbound /\ Resilient /\ Exhaust /\ net_conf # None)
        => /\ ReturnsFail <=> AvailNodes(net_conf) = 0
           /\ AvailNodes(net_conf) >= 1 => Retries]_vars

\* The handler has just decided to retry with exactly one healthy node.
C5_Witness ==
    /\ pc = "loop" /\ ~execution_complete /\ Resilient /\ Exhaust
    /\ failed_at \in PhaseNames /\ avail_nodes = 1 /\ AvailNodes(net_conf) = 1

\* C6: resilient without exhaust_resources: after a failure the handler
\* returns the failure status iff the healthy count of net_conf equals
\* node_count - 1, and retries for every other count, above or below.
C6_ThresholdAbortIffEqual ==
    [][(pc = "except" /\ fe_server # Unbound /\ Resilient /\ ~Exhaust /\ net_conf # None)
        => /\ ReturnsFail <=> AvailNodes(net_conf) = args_map.node_count - 1
           /\ AvailNodes(net_conf) # args_map.node_count - 1 => Retries]_vars

\* The handler has just decided to retry with fewer than node_count - 1
\* healthy nodes.
C6_Witness ==
    /\ pc = "loop" /\ ~execution_complete /\ Resilient /\ ~Exhaust
    /\ failed_at \in PhaseNames /\ avail_nodes # NoCount
    /\ avail_nodes < args_map.node_count - 1

\* C7: threshold mode ends a shrinking run: when every attempt has failed,
\* the healthy counts seen by the classifier started at most at node_count and
\* went strictly down, and the count has reached 0 (it cannot go down again),
\* the run has returned the failure status.
C7_ShrinkingRunFails ==
    (Resilient /\ ~Exhaust /\ shrinking /\ avail_nodes = 0)
        => (pc = "done" /\ result = LAUNCHER_FAIL_EXIT)

\* C8: a failure to acquire the session is fatal: the handler returns the
\* failure status, on the first attempt and on later ones.
C8_AcquireFailureFatal ==
    [][(pc = "except" /\ failed_at = "acquire") => ReturnsFail]_vars

\* C9: the hint run_startup receives is the configuration returned by the
\* last phase that completed (of this run, hence of the attempt that failed
\* before a retry), and None when no phase has returned one.
C9_HintIsLastReturned ==
    pc = "run_startup" => startup_arg = last_conf

\* run_startup of a retry is running after run_app failed, with a
\* configuration as its hint.
C9_Witness ==
    /\ pc = "run_startup" /\ nsessions = 2 /\ failed_at = "run_app"
    /\ startup_arg \in Configs

\* C10: at most one session is alive, and none is alive when the loop is
\* about to acquire one.
C10_OneSessionAlive ==
    /\ Cardinality(alive) <= 1
    /\ pc = "with" => alive = {}

\* The session of a retry is alive and the first one has been torn down.
C10_Witness ==
    /\ nsessions = 2 /\ alive = {2} /\ released[1] = 1
    /\ pc = "call_msg_server"

\* The three phases in the order of lines 42-44.
AllPhases == <<"run_startup", "run_app", "run_msg_server">>

\* C11: an attempt that left the with block without an exception has invoked
\* run_startup, run_app and run_msg_server on its session in this order, each
\* exactly once; at any time the calls made on a session are a prefix of
\* that sequence.
C11_PhaseOrder ==
    /\ Len(calls) <= 3 /\ calls = SubSeq(AllPhases, 1, Len(calls))
    /\ (pc = "else" \/ (pc = "with_exit" /\ ~raised)) => calls = AllPhases
    /\ (pc \in {"loop", "done"} /\ execution_complete) => calls = AllPhases

\* A retry attempt has completed its three phases.
C11_Witness ==
    pc = "else" /\ nsessions = 2 /\ calls = AllPhases /\ ~raised

\* C12: when the first attempt completes its three phases, the run makes no
\* second iteration and acquires no second session; it sets
\* execution_complete and returns the success status.
C12_FirstAttemptSuccess ==
    (fe_server = 1 /\ failed_at = "none"
       /\ pc \in {"else", "loop", "with", "except", "done", "raised"})
        => /\ iter = 1 /\ nsessions = 1
           /\ pc \in {"else", "loop", "done"}
           /\ pc = "loop" => execution_complete
           /\ pc = "done" => result = LAUNCHER_SUCCESS_EXIT

\* The run has returned success after a single iteration with one session.
C12_Witness ==
    /\ pc = "done" /\ result = LAUNCHER_SUCCESS_EXIT
    /\ iter = 1 /\ nsessions = 1 /\ released[1] = 1

\* Healthy worker entries of a configuration, counted entry by entry over
\* the worker keys.
RECURSIVE HealthyUpTo(_, _)
HealthyUpTo(conf, k) ==
    IF k = 0 THEN 0
    ELSE HealthyUpTo(conf, k - 1)
         + (IF conf[k] = "ACTIVE" \/ conf[k] = "IDLE" THEN 1 ELSE 0)

\* C13: the count the handler takes is the number of worker entries in state
\* ACTIVE or IDLE: the front-end entry adds nothing whatever its state, and
\* entries in another state add nothing.
C13_CountIsHealthyWorkers ==
    [][(pc = "except" /\ Resilient /\ pc' \in {"loop", "done"})
        => avail_nodes' = HealthyUpTo(net_conf, MaxNodes)]_vars

\* The handler counted 1 for a configuration whose front end is ACTIVE, with
\* one worker IDLE and the others DOWN.
C13_Witness ==
    /\ pc = "loop" /\ raised /\ Resilient /\ net_conf \in Configs
    /\ net_conf[FrontEndKey] = "ACTIVE" /\ net_conf[1] = "IDLE"
    /\ \A k \in WorkerKeys \ {1} : net_conf[k] = "DOWN"
    /\ avail_nodes = 1

\* C14: the failure status is returned only after a failure in the current
\* iteration, and then only when resilient is false or the count taken for
\* net_conf meets the abort condition of the policy; the success status is
\* returned only after an attempt whose three phases all returned.
C14_ExitOnlyByPolicy ==
    /\ (pc = "done" /\ result = LAUNCHER_FAIL_EXIT)
         => /\ raised /\ failed_at # "none"
            /\ \/ ~Resilient
               \/ /\ net_conf \in Configs
                  /\ avail_nodes = HealthyUpTo(net_conf, MaxNodes)
                  /\ IF Exhaust THEN avail_nodes = 0
                     ELSE avail_nodes = args_map.node_count - 1
    /\ (pc = "done" /\ result = LAUNCHER_SUCCESS_EXIT)
         => ~raised /\ failed_at = "none" /\ calls = AllPhases /\ execution_complete

\* A resilient run in threshold mode returned the failure status after
\* run_msg_server failed with node_count - 1 healthy workers.
C14_Witness ==
    /\ pc = "done" /\ result = LAUNCHER_FAIL_EXIT /\ Resilient /\ ~Exhaust
    /\ failed_at = "run_msg_server" /\ avail_nodes = args_map.node_count - 1

\* C15: the step that decides ABORT is the handler's: it ends the run with
\* the failure status at once, acquires no session and invokes no phase; the
\* failed attempt's session is already torn down when it is taken, and
\* nothing happens after it.
C15_AbortEndsRun ==
    [][/\ (pc' = "done" /\ result' = LAUNCHER_FAIL_EXIT)
            => /\ pc = "except" /\ alive = {}
               /\ fe_server # Unbound /\ released[fe_server] = 1
               /\ UNCHANGED <<nsessions, iter, calls, alive, released>>
       /\ pc # "done"]_vars

\* A resilient run aborted after run_msg_server failed in its second attempt.
C15_Witness ==
    /\ pc = "done" /\ result = LAUNCHER_FAIL_EXIT /\ Resilient
    /\ failed_at = "run_msg_server" /\ iter = 2 /\ nsessions = 2
    /\ calls = AllPhases /\ alive = {}

\* C16: a phase is invoked only while no statement of the attempt has raised:
\* after run_startup raised the session has seen run_startup only, after
\* run_app raised it has seen run_startup and run_app only.
C16_NoPhaseAfterFailure ==
    /\ [](/\ (raised /\ failed_at = "run_startup") => calls = <<"run_startup">>
          /\ (raised /\ failed_at = "run_app") => calls = <<"run_startup", "run_app">>)
    /\ [][(calls' # calls /\ calls' # <<>>) => (~raised /\ alive = {fe_server})]_vars

\* The handler is entered after run_startup raised; no later phase was called.
C16_Witness ==
    /\ pc = "except" /\ raised /\ failed_at = "run_startup"
    /\ calls = <<"run_startup">> /\ nsessions = 2

\* C17: a run_startup that raises leaves net_conf equal to the hint it was
\* given; net_conf then stays as it is until it is passed as the hint of the
\* next attempt, and on a retry attempt the handler takes the same count as
\* after the previous failure.
C17_FailedStartupKeepsConf ==
    [][/\ (pc = "run_startup" /\ pc' # "call_app")
            => (net_conf' = startup_arg /\ net_conf' = net_conf)
       /\ pc \in {"with_exit", "except", "loop", "with", "call_startup"}
            => net_conf' = net_conf
       /\ pc = "call_startup" => startup_arg' = net_conf
       /\ (pc = "except" /\ failed_at = "run_startup" /\ nsessions >= 2
              /\ Resilient /\ pc' \in {"loop", "done"})
            => avail_nodes' = avail_nodes]_vars

\* run_startup of a third attempt is running with the configuration that the
\* second attempt's failed run_startup had been given.
C17_Witness ==
    /\ pc = "run_startup" /\ nsessions = 3 /\ failed_at = "run_startup"
    /\ startup_arg \in Configs /\ startup_arg = net_conf
    /\ avail_nodes = HealthyUpTo(startup_arg, MaxNodes)

\* C18: resilient with exhaust_resources: while every attempt has failed and
\* the counts taken went strictly down, the n-th failed attempt leaves at
\* most MaxNodes + 1 - n healthy nodes, and once the count is 0 the run has
\* returned the failure status.
C18_ExhaustShrinkingRunFails ==
    (Resilient /\ Exhaust /\ decreasing /\ avail_nodes # NoCount)
        => /\ avail_nodes = 0 => (pc = "done" /\ result = LAUNCHER_FAIL_EXIT)
           /\ pc \in {"loop", "with", "done"} => avail_nodes + nsessions <= MaxNodes + 1

\* The third failed attempt of a run with counts 2, 1, 0 has returned the
\* failure status.
C18_Witness ==
    /\ pc = "done" /\ result = LAUNCHER_FAIL_EXIT /\ Resilient /\ Exhaust
    /\ decreasing /\ nsessions = 3 /\ avail_nodes = 0
    /\ failed_at \in {"run_app", "run_msg_server"}

\* C19: the count is taken only in the handler, after a failure; an attempt
\* whose three phases returned goes on to the else clause and to the success
\* status, whatever net_conf holds and whatever happened in earlier attempts.
C19_HealthOnlyAfterFailure ==
    /\ []((fe_server # Unbound /\ ~raised /\ failed_at = "none"
             /\ pc \in {"else", "loop", "with", "except", "done", "raised"})
          => /\ pc \in {"else", "loop", "done"}
             /\ pc = "loop" => execution_complete
             /\ pc = "done" => result = LAUNCHER_SUCCESS_EXIT)
    /\ [][avail_nodes' # avail_nodes => (pc = "except" /\ raised)]_vars

\* A run whose first attempt failed returned success from its second attempt
\* although run_msg_server returned a configuration without healthy workers.
C19_Witness ==
    /\ pc = "done" /\ result = LAUNCHER_SUCCESS_EXIT /\ nsessions = 2
    /\ HealthyUpTo(net_conf, MaxNodes) = 0 /\ avail_nodes > 0

=============================================================================
